---- MODULE Spec2Model ----
(***************************************************************************)
(* Contact manager: field validators, Record, AddressBook and the command  *)
(* handlers, as implemented in src/app/entities.py, src/app/handlers.py    *)
(* and src/app/decorators.py, with the Notebook of notes.                  *)
(*                                                                         *)
(* Python strings are sequences of one-character strings.  A Python dict   *)
(* is a sequence of [key, rec] entries in insertion order.  An object      *)
(* reference returned by a lookup is the 1-based position of the object in *)
(* its container, 0 standing for None.  A raised exception is the name of  *)
(* its class, NoErr standing for normal completion.                        *)
(***************************************************************************)
EXTENDS Integers, Sequences, FiniteSets, TLC

VARIABLES book, notebook, now, disk, run, last

vars == <<book, notebook, now, disk, run, last>>

NoErr == "NoErr"
NoRet == "None"

\* ------------------------------------------------------------------------
\* Bounds of the model
\* ------------------------------------------------------------------------
MaxBook == 2
MaxPhones == 3
MaxPre == 3
MaxTicks == 3
MaxCmdBook == 2
MaxCmdList == 1

\* ------------------------------------------------------------------------
\* Strings
\* ------------------------------------------------------------------------
Whitespace == {" ", "\t"}

AsciiDigits == {"0", "1", "2", "3", "4", "5", "6", "7", "8", "9"}

\* regex \d on str: the decimal digits.
IsReDigit(c) == c \in AsciiDigits

\* str.isdigit: the decimal digits and also digit-like characters such as
\* the superscript two, which \d does not match.
IsDigit(c) == c \in AsciiDigits \cup {"²"}

RECURSIVE LStrip(_)
LStrip(s) ==
    IF s # <<>> /\ Head(s) \in Whitespace THEN LStrip(Tail(s)) ELSE s

RECURSIVE RStrip(_)
RStrip(s) ==
    IF s # <<>> /\ s[Len(s)] \in Whitespace
    THEN RStrip(SubSeq(s, 1, Len(s) - 1))
    ELSE s

\* str.strip()
Strip(s) == RStrip(LStrip(s))

\* str.startswith
StartsWith(s, p) == Len(s) >= Len(p) /\ SubSeq(s, 1, Len(p)) = p

UpperCase ==
    <<"A", "B", "C", "D", "E", "F", "G", "H", "I", "J", "K", "L", "M",
      "N", "O", "P", "Q", "R", "S", "T", "U", "V", "W", "X", "Y", "Z">>

LowerCase ==
    <<"a", "b", "c", "d", "e", "f", "g", "h", "i", "j", "k", "l", "m",
      "n", "o", "p", "q", "r", "s", "t", "u", "v", "w", "x", "y", "z">>

\* str.casefold of one character: upper case letters fold to lower case and
\* the sharp s folds to two characters.
CaseFolding ==
    [c \in {UpperCase[i] : i \in 1..Len(UpperCase)} \cup {"ß"} |->
        IF c = "ß" THEN <<"s", "s">>
        ELSE <<LowerCase[CHOOSE i \in 1..Len(UpperCase) : UpperCase[i] = c]>>]

CaseFoldChar(c) == IF c \in DOMAIN CaseFolding THEN CaseFolding[c] ELSE <<c>>

RECURSIVE casefold(_)
casefold(s) ==
    IF s = <<>> THEN <<>> ELSE CaseFoldChar(Head(s)) \o casefold(Tail(s))

\* ------------------------------------------------------------------------
\* Phone (entities.py 289-319; the class at 77-107 is the same text and is
\* rebound by this one)
\* ------------------------------------------------------------------------
PHONE_LEN == 10

UA_PREFIX == <<"3", "8", "0">>

\* Variant: the whole country code 380 is dropped.
Phone_clean_and_normalize_phone_drop3(phone_number) ==
    LET digits == SelectSeq(Strip(phone_number), IsReDigit)
    IN  IF StartsWith(digits, UA_PREFIX) /\ Len(digits) > 10
        THEN SubSeq(digits, 4, Len(digits))
        ELSE digits

\* Phone._clean_and_normalize_phone: strip, drop every non-digit, and drop
\* the first two characters of a number that starts with 380 and is longer
\* than ten digits.
Phone_clean_and_normalize_phone(phone_number) ==
    LET digits == SelectSeq(Strip(phone_number), IsReDigit)
    IN  IF StartsWith(digits, UA_PREFIX) /\ Len(digits) > 10
        THEN SubSeq(digits, 3, Len(digits))
        ELSE digits

\* Variant: only numbers that are too short are refused.
Phone_validate_phone_short(phone) ==
    IF Len(phone) < PHONE_LEN THEN "ValueError" ELSE NoErr

\* Phone._validate_phone: exactly ten digits, else ValueError.
Phone_validate_phone(phone) ==
    IF Len(phone) # PHONE_LEN THEN "ValueError" ELSE NoErr

\* Phone.__init__: the stored value, or the error raised by validation.
Phone(value) ==
    LET cleaned_phone == Phone_clean_and_normalize_phone(value)
        err == Phone_validate_phone(cleaned_phone)
    IN  [err |-> err, value |-> IF err = NoErr THEN cleaned_phone ELSE <<>>]

\* ------------------------------------------------------------------------
\* Dates (datetime.strptime, datetime comparison, strftime)
\* ------------------------------------------------------------------------
Date(y, m, d) == [y |-> y, m |-> m, d |-> d]

IsLeap(y) == (y % 4 = 0) /\ ((y % 100 # 0) \/ (y % 400 = 0))

DaysInMonth(y, m) ==
    IF m = 2 THEN (IF IsLeap(y) THEN 29 ELSE 28)
    ELSE IF m \in {4, 6, 9, 11} THEN 30 ELSE 31

\* A day of the proleptic Gregorian calendar that datetime accepts.
ValidDate(y, m, d) ==
    /\ y \in 1..9999
    /\ m \in 1..12
    /\ d >= 1 /\ d <= DaysInMonth(y, m)

\* a < b for two dates.
DateLess(a, b) ==
    \/ a.y < b.y
    \/ a.y = b.y /\ a.m < b.m
    \/ a.y = b.y /\ a.m = b.m /\ a.d < b.d

RECURSIVE DaysBeforeMonth(_, _)
DaysBeforeMonth(y, m) ==
    IF m = 1 THEN 0 ELSE DaysBeforeMonth(y, m - 1) + DaysInMonth(y, m - 1)

\* date.toordinal: 1 for 01.01.0001.
Ordinal(dt) ==
    LET py == dt.y - 1
    IN  365 * py + (py \div 4) - (py \div 100) + (py \div 400)
            + DaysBeforeMonth(dt.y, dt.m) + dt.d

\* The day after dt.
NextDay(dt) ==
    IF dt.d < DaysInMonth(dt.y, dt.m) THEN Date(dt.y, dt.m, dt.d + 1)
    ELSE IF dt.m < 12 THEN Date(dt.y, dt.m + 1, 1)
    ELSE Date(dt.y + 1, 1, 1)

DigitChars == <<"0", "1", "2", "3", "4", "5", "6", "7", "8", "9">>

\* The value of a decimal digit character.
DigitVal(c) == (CHOOSE i \in 1..10 : DigitChars[i] = c) - 1

\* int() of a digit string, a leading blank ignored.
RECURSIVE ToInt(_)
ToInt(s) ==
    IF s = <<>> \/ s = <<" ">> THEN 0 ELSE 10 * ToInt(SubSeq(s, 1, Len(s) - 1)) + DigitVal(s[Len(s)])

AllDigits(s) == \A i \in 1..Len(s) : s[i] \in AsciiDigits

\* The positions of the dots of s.
Dots(s) == {i \in 1..Len(s) : s[i] = "."}

\* datetime.strptime(value, "%d.%m.%Y"): day and month of one or two digits,
\* a year of four digits, separated by dots, nothing before or after, and
\* the three numbers a day of the calendar; ValueError otherwise.
Strptime(value) ==
    LET dots == Dots(value)
        p == CHOOSE i \in dots : \A j \in dots : i <= j
        q == CHOOSE i \in dots : \A j \in dots : j <= i
        dd == SubSeq(value, 1, p - 1)
        mm == SubSeq(value, p + 1, q - 1)
        yyyy == SubSeq(value, q + 1, Len(value))
        bad == [err |-> "ValueError", value |-> Date(0, 0, 0)]
    IN  IF Cardinality(dots) # 2 THEN bad
        ELSE IF ~(/\ \/ Len(dd) \in {1, 2} /\ AllDigits(dd)
                     \/ Len(dd) = 2 /\ dd[1] = " " /\ dd[2] \in AsciiDigits
                  /\ Len(mm) \in {1, 2} /\ AllDigits(mm)
                  /\ Len(yyyy) = 4 /\ AllDigits(yyyy)) THEN bad
        ELSE IF ~ValidDate(ToInt(yyyy), ToInt(mm), ToInt(dd)) THEN bad
        ELSE [err |-> NoErr, value |-> Date(ToInt(yyyy), ToInt(mm), ToInt(dd))]

\* An integer in decimal, padded with zeros to width characters.
RECURSIVE ZeroPad(_, _)
ZeroPad(n, width) ==
    IF width = 0 THEN <<>>
    ELSE ZeroPad(n \div 10, width - 1) \o <<DigitChars[(n % 10) + 1]>>

\* strftime("%d.%m.%Y")
Strftime(dt) ==
    ZeroPad(dt.d, 2) \o <<".">> \o ZeroPad(dt.m, 2) \o <<".">> \o ZeroPad(dt.y, 4)

\* ------------------------------------------------------------------------
\* Birthday (entities.py 322-343)
\* ------------------------------------------------------------------------

\* The names bound in the namespace of entities.py: its imports and its
\* classes, with Name.  The classes of exceptions.py are not among them.
EntitiesNamespace ==
    {"re", "UserDict", "date", "datetime", "timedelta", "List", "Optional",
     "Dict", "Any", "Note", "Field", "Phone", "Address", "Notebook",
     "Birthday", "AddressBook", "Email", "Record", "Name"}

\* raise cls(...): the name lookup fails with NameError when cls is unbound.
RaiseNamed(cls) == IF cls \in EntitiesNamespace THEN cls ELSE "NameError"

\* Birthday.__init__: parse; a date after now raises FutureDateError, which
\* the except clause for ValueError does not catch; a ValueError of strptime
\* is caught and InvalidDateFormatError is raised in its place.
Birthday(value, current) ==
    LET parsed == Strptime(value)
        raised == IF parsed.err # NoErr THEN parsed.err
                  ELSE IF DateLess(current, parsed.value)
                       THEN RaiseNamed("FutureDateError")
                       ELSE NoErr
    IN  IF raised = "ValueError"
        THEN [err |-> RaiseNamed("InvalidDateFormatError"), value |-> parsed.value]
        ELSE [err |-> raised, value |-> parsed.value]

\* ------------------------------------------------------------------------
\* Record (entities.py 665-768)
\* ------------------------------------------------------------------------

\* Name is referenced by Record.__init__ and defined in no source file; it
\* is the Field that holds the identifying string of the record.
Name(value) == [value |-> value]

\* Record.__init__
Record(name) ==
    [name |-> Name(name), phones |-> <<>>, emails |-> <<>>,
     addresses |-> <<>>, birthday |-> <<>>]

\* Record.add_phone: append Phone(phone); Phone's error propagates.
Record_add_phone(rec, phone) ==
    LET p == Phone(phone)
    IN  IF p.err # NoErr
        THEN [rec |-> rec, err |-> p.err]
        ELSE [rec |-> [rec EXCEPT !.phones = Append(@, [value |-> p.value])],
              err |-> NoErr]

\* Record.find_phone: position of the first Phone whose value equals the
\* isdigit characters of the argument; 0 when there is none.
Record_find_phone(rec, phone) ==
    LET digits == SelectSeq(phone, IsDigit)
        hits == {i \in 1..Len(rec.phones) : rec.phones[i].value = digits}
    IN  IF hits = {} THEN 0 ELSE CHOOSE i \in hits : \A j \in hits : i <= j

\* Record.add_birthday: replace the birthday by Birthday(birthday_str).
Record_add_birthday(rec, birthday_str, current) ==
    LET b == Birthday(birthday_str, current)
    IN  IF b.err # NoErr
        THEN [rec |-> rec, err |-> b.err]
        ELSE [rec |-> [rec EXCEPT !.birthday = <<[value |-> b.value]>>],
              err |-> NoErr]

\* Email.__init__ takes no value: Email(email) raises TypeError.
Email(value) == [err |-> "TypeError", value |-> value]

\* Record.add_email: append Email(email); Email's error propagates.
Record_add_email(rec, email) ==
    LET e == Email(email)
    IN  IF e.err # NoErr
        THEN [rec |-> rec, err |-> e.err]
        ELSE [rec |-> [rec EXCEPT !.emails = Append(@, [value |-> e.value])],
              err |-> NoErr]

\* Address.__init__ (entities.py 110-114) hands the value to Field as it is.
Address(value) == [err |-> NoErr, value |-> value]

\* Record.add_address: append Address(address).
Record_add_address(rec, address) ==
    LET a == Address(address)
    IN  IF a.err # NoErr
        THEN [rec |-> rec, err |-> a.err]
        ELSE [rec |-> [rec EXCEPT !.addresses = Append(@, [value |-> a.value])],
              err |-> NoErr]

\* list.remove(x) for the object at position i: the first element equal to it.
RemoveAt(s, i) == SubSeq(s, 1, i - 1) \o SubSeq(s, i + 1, Len(s))

\* Variant: every phone with the value is removed.
Record_remove_phone_every(rec, phone) ==
    LET target == Record_find_phone(rec, phone)
        Other(p) == p.value # rec.phones[target].value
    IN  IF target = 0
        THEN [rec |-> rec, ret |-> FALSE, err |-> NoErr]
        ELSE [rec |-> [rec EXCEPT !.phones = SelectSeq(@, Other)],
              ret |-> TRUE, err |-> NoErr]

\* Record.remove_phone
Record_remove_phone(rec, phone) ==
    LET target == Record_find_phone(rec, phone)
    IN  IF target = 0
        THEN [rec |-> rec, ret |-> FALSE, err |-> NoErr]
        ELSE [rec |-> [rec EXCEPT !.phones = RemoveAt(@, target)],
              ret |-> TRUE, err |-> NoErr]

\* Variant: the new number is validated before the old one is looked up.
Record_edit_phone_validate_first(rec, old_phone, new_phone) ==
    LET target == Record_find_phone(rec, old_phone)
        new_phone_obj == Phone(new_phone)
    IN  IF new_phone_obj.err # NoErr
        THEN [rec |-> rec, ret |-> FALSE, err |-> new_phone_obj.err]
        ELSE IF target = 0
        THEN [rec |-> rec, ret |-> FALSE, err |-> NoErr]
        ELSE [rec |-> [rec EXCEPT !.phones[target].value = new_phone_obj.value],
              ret |-> TRUE, err |-> NoErr]

\* Variant: every slot that holds the old number receives the new one.
Record_edit_phone_every(rec, old_phone, new_phone) ==
    LET target == Record_find_phone(rec, old_phone)
        new_phone_obj == Phone(new_phone)
    IN  IF target = 0
        THEN [rec |-> rec, ret |-> FALSE, err |-> NoErr]
        ELSE IF new_phone_obj.err # NoErr
        THEN [rec |-> rec, ret |-> FALSE, err |-> new_phone_obj.err]
        ELSE [rec |-> [rec EXCEPT !.phones =
                        [i \in 1..Len(@) |->
                            IF @[i].value = rec.phones[target].value
                            THEN [value |-> new_phone_obj.value]
                            ELSE @[i]]],
              ret |-> TRUE, err |-> NoErr]

\* Record.edit_phone
Record_edit_phone(rec, old_phone, new_phone) ==
    LET target == Record_find_phone(rec, old_phone)
        new_phone_obj == Phone(new_phone)
    IN  IF target = 0
        THEN [rec |-> rec, ret |-> FALSE, err |-> NoErr]
        ELSE IF new_phone_obj.err # NoErr
        THEN [rec |-> rec, ret |-> FALSE, err |-> new_phone_obj.err]
        ELSE [rec |-> [rec EXCEPT !.phones[target].value = new_phone_obj.value],
              ret |-> TRUE, err |-> NoErr]

\* ------------------------------------------------------------------------
\* AddressBook (entities.py 346-396, 483-489)
\* ------------------------------------------------------------------------

\* The positions of the keys of data that satisfy the lookup for name.
FoldMatches(data, name) ==
    {i \in 1..Len(data) : casefold(data[i].key) = casefold(name)}

\* Variant: the keys are compared as written.
AddressBook_has_name_exact(data, name) ==
    \E i \in 1..Len(data) : data[i].key = name

\* AddressBook._has_name
AddressBook_has_name(data, name) == FoldMatches(data, name) # {}

\* self.data[name] = record: replace the value of an existing key in place,
\* append a new key at the end.
DictSet(data, key, rec) ==
    IF \E i \in 1..Len(data) : data[i].key = key
    THEN [i \in 1..Len(data) |->
            IF data[i].key = key THEN [key |-> key, rec |-> rec] ELSE data[i]]
    ELSE Append(data, [key |-> key, rec |-> rec])

\* Variant: the record is stored before the name is checked.
AddressBook_add_record_store_first(data, record) ==
    LET name == record.name.value
    IN  IF AddressBook_has_name(data, name)
        THEN [data |-> DictSet(data, name, record), err |-> "ValueError"]
        ELSE [data |-> DictSet(data, name, record), err |-> NoErr]

\* AddressBook.add_record
AddressBook_add_record(data, record) ==
    LET name == record.name.value
    IN  IF AddressBook_has_name(data, name)
        THEN [data |-> data, err |-> "ValueError"]
        ELSE [data |-> DictSet(data, name, record), err |-> NoErr]

\* Variant: the name is looked up as written.
AddressBook_find_exact(data, name) ==
    LET hits == {i \in 1..Len(data) : data[i].key = name}
    IN  IF hits = {} THEN 0 ELSE CHOOSE i \in hits : \A j \in hits : i <= j

\* AddressBook.find: position of the first entry whose key case-folds to the
\* case-folded name; 0 for None.
AddressBook_find(data, name) ==
    LET hits == FoldMatches(data, name)
    IN  IF hits = {} THEN 0 ELSE CHOOSE i \in hits : \A j \in hits : i <= j

\* Variant: every entry from the first match on is removed.
AddressBook_delete_tail(data, name) ==
    LET hits == FoldMatches(data, name)
    IN  IF hits = {}
        THEN [data |-> data, ret |-> FALSE]
        ELSE [data |-> SubSeq(data, 1, (CHOOSE i \in hits : \A j \in hits : i <= j) - 1),
              ret |-> TRUE]

\* AddressBook.delete: remove the first matching entry and return True.
AddressBook_delete(data, name) ==
    LET hits == FoldMatches(data, name)
    IN  IF hits = {}
        THEN [data |-> data, ret |-> FALSE]
        ELSE [data |-> RemoveAt(data, CHOOSE i \in hits : \A j \in hits : i <= j),
              ret |-> TRUE]

\* ------------------------------------------------------------------------
\* Inputs
\* ------------------------------------------------------------------------
John == <<"J", "o", "h", "n">>
john == <<"j", "o", "h", "n">>
JOHN == <<"J", "O", "H", "N">>
Ann == <<"A", "n", "n">>
ANN == <<"A", "N", "N">>
Eszett == <<"ß">>
SS == <<"S", "S">>

Names == {John, john, JOHN, Ann, ANN, Eszett, SS}

Ph050 == <<"0", "5", "0", "1", "2", "3", "4", "5", "6", "7">>
Ph067 == <<"0", "6", "7", "1", "2", "3", "4", "5", "6", "7">>

\* Raw phone arguments: plain, with country code, punctuated, padded with
\* blanks, ten digits that begin with 380, too short, too long, empty, and
\* one with a digit-like character that is no decimal digit.
RawPhones ==
    { Ph050,
      Ph067,
      <<"+", "3", "8">> \o Ph050,
      <<"0", "5", "0", "-", "1", "2", "3", "-", "4", "5", "-", "6", "7">>,
      <<" ">> \o Ph067 \o <<" ">>,
      <<"3", "8", "0", "5", "0", "1", "2", "3", "4", "5">>,
      <<"1", "2", "3">>,
      <<"3", "8">> \o SubSeq(Ph050, 1, 9),
      Ph050 \o <<"8">>,
      Ph050 \o <<"²">>,
      <<>> }

\* Raw birthday arguments: formatted days around the clock, in the past and
\* in a leap year, days no month has, and strings of another shape.
BirthdayRaws ==
    {Strftime(Date(y, m, d)) :
        y \in {1990, 2024, 2025}, m \in {2, 3}, d \in {10, 11, 12, 29, 30}}
    \cup { <<"1", "9", "9", "0", "-", "0", "3", "-", "1", "0">>,
           <<"1", "0", ".", "0", "3", ".", "9", "0">>,
           <<"1", "0", ".", "1", "3", ".", "1", "9", "9", "0">>,
           <<"1", ".", "3", ".", "1", "9", "9", "0">>,
           <<" ", "1", ".", "0", "3", ".", "1", "9", "9", "0">>,
           <<"a", "b", "c">>,
           <<>> }

\* The old numbers given to edit_phone: stored forms and forms that differ
\* from the stored value in punctuation, country code or a digit-like
\* character.
OldPhones ==
    { Ph050,
      Ph067,
      <<"+", "3", "8">> \o Ph050,
      <<"0", "5", "0", "-", "1", "2", "3", "-", "4", "5", "-", "6", "7">>,
      Ph050 \o <<"²">> }

\* The records handed to add_record: new records, with or without a phone.
RecordInputs ==
    {Record(n) : n \in Names}
        \cup {Record_add_phone(Record(n), Ph050).rec : n \in Names}

\* ------------------------------------------------------------------------
\* State
\* ------------------------------------------------------------------------
\* The clock: the calendar day of datetime.now() and date.today().  A stored
\* birthday is a datetime at midnight, so only the day of now decides
\* whether the birthday is after now.
Clock0 == Date(2025, 3, 10)

\* The last call: operation, arguments, raised error, returned value and
\* the book before the call.
Call(op, args, err, ret, pre) ==
    [op |-> op, args |-> args, err |-> err, ret |-> ret, pre |-> pre]

NoCall == Call("none", <<>>, NoErr, NoRet, <<>>)

\* The two JSON files of memory.py: each a sequence that holds the parsed
\* content of the file, empty while the file does not exist.
Missing == <<>>

NoFiles == [addressbook |-> Missing, notebook |-> Missing]

\* The run of main: where it is, how often save_data was called, and the
\* collections handed to the last save_data.
NotRun == [pc |-> "none", saves |-> 0, saved |-> <<>>]

\* ------------------------------------------------------------------------
\* AddressBook under add_record, find and delete
\* ------------------------------------------------------------------------
InitBook ==
    /\ book = <<>>
    /\ notebook = <<>>
    /\ now = Clock0
    /\ disk = NoFiles
    /\ run = NotRun
    /\ last = NoCall

AddRecord(record) ==
    /\ LET r == AddressBook_add_record(book, record)
       IN  /\ Len(r.data) <= MaxBook
           /\ book' = r.data
           /\ last' = Call("add_record", <<record>>, r.err, NoRet, book)
    /\ UNCHANGED <<notebook, now, disk, run>>

Find(name) ==
    /\ last' = Call("find", <<name>>, NoErr, AddressBook_find(book, name), book)
    /\ UNCHANGED <<book, notebook, now, disk, run>>

Delete(name) ==
    /\ LET r == AddressBook_delete(book, name)
       IN  /\ book' = r.data
           /\ last' = Call("delete", <<name>>, NoErr, r.ret, book)
    /\ UNCHANGED <<notebook, now, disk, run>>

NextBook ==
    \/ \E record \in RecordInputs : AddRecord(record)
    \/ \E name \in Names : Find(name)
    \/ \E name \in Names : Delete(name)

SpecBook == InitBook /\ [][NextBook]_vars

\* The keys of a dict, folded, are pairwise different.
FoldUnique(data) ==
    \A i, j \in 1..Len(data) :
        casefold(data[i].key) = casefold(data[j].key) => i = j

\* C1: after any sequence of add_record and delete calls that starts from an
\* empty book, no two stored keys are case-fold equal.
C1_NoFoldEqualKeys == FoldUnique(book)

\* A second key was accepted into the book.
C1_Witness ==
    /\ Len(book) = 2
    /\ last.op = "add_record" /\ last.err = NoErr

\* Some key of data case-folds to the same string as name.
FoldPresent(data, name) ==
    \E i \in 1..Len(data) : casefold(data[i].key) = casefold(name)

\* C2: add_record with a record whose name case-folds equal to a stored key
\* fails with the duplicate error (ValueError) and leaves keys and records
\* as they were.
C2_DuplicateRejected ==
    (last.op = "add_record" /\ FoldPresent(last.pre, last.args[1].name.value))
        => (last.err = "ValueError" /\ book = last.pre)

\* The refused name differs from the stored key in case only.
C2_Witness ==
    /\ last.op = "add_record" /\ last.err = "ValueError"
    /\ \E i \in 1..Len(last.pre) :
          /\ last.pre[i].key # last.args[1].name.value
          /\ casefold(last.pre[i].key) = casefold(last.args[1].name.value)

\* C6: find(name) returns the Record stored under the key that case-folds
\* equal to name and None when no key does; with key John stored, find of
\* john and of JOHN return the Record stored under John.
C6_FindByFold ==
    last.op = "find" =>
        /\ IF FoldPresent(book, last.args[1])
           THEN /\ last.ret \in 1..Len(book)
                /\ casefold(book[last.ret].key) = casefold(last.args[1])
           ELSE last.ret = 0
        /\ \A i \in 1..Len(book) :
              (book[i].key = John /\ last.args[1] \in {john, JOHN})
                  => last.ret = i

\* find of JOHN returned the Record stored under John, which is not first.
C6_Witness ==
    /\ last.op = "find" /\ last.args[1] = JOHN
    /\ last.ret > 1 /\ book[last.ret].key = John

\* C7: delete(name) returns True exactly when a stored key case-folds equal
\* to name; then that one entry is gone, no key folds to name any more and
\* the other entries are unchanged and in order; on False the book is
\* unchanged.
C7_DeleteFrame ==
    last.op = "delete" =>
        /\ last.ret = FoldPresent(last.pre, last.args[1])
        /\ last.ret =>
              /\ \E i \in 1..Len(last.pre) :
                    /\ casefold(last.pre[i].key) = casefold(last.args[1])
                    /\ book = RemoveAt(last.pre, i)
              /\ ~FoldPresent(book, last.args[1])
        /\ ~last.ret => book = last.pre

\* A delete by a name in another case removed the first of two entries.
C7_Witness ==
    /\ last.op = "delete" /\ last.ret = TRUE
    /\ Len(last.pre) = 2 /\ Len(book) = 1
    /\ last.pre[1].key # last.args[1]
    /\ book[1] = last.pre[2]

\* ------------------------------------------------------------------------
\* One Record under add_phone, find_phone, remove_phone and edit_phone
\* ------------------------------------------------------------------------
InitRecord ==
    /\ book = <<[key |-> John, rec |-> Record(John)]>>
    /\ notebook = <<>>
    /\ now = Clock0
    /\ disk = NoFiles
    /\ run = NotRun
    /\ last = NoCall

AddPhone(raw) ==
    /\ LET r == Record_add_phone(book[1].rec, raw)
       IN  /\ Len(r.rec.phones) <= MaxPhones
           /\ book' = [book EXCEPT ![1].rec = r.rec]
           /\ last' = Call("add_phone", <<raw>>, r.err, NoRet, book)
    /\ UNCHANGED <<notebook, now, disk, run>>

FindPhone(raw) ==
    /\ last' = Call("find_phone", <<raw>>, NoErr,
                    Record_find_phone(book[1].rec, raw), book)
    /\ UNCHANGED <<book, notebook, now, disk, run>>

RemovePhone(raw) ==
    /\ LET r == Record_remove_phone(book[1].rec, raw)
       IN  /\ book' = [book EXCEPT ![1].rec = r.rec]
           /\ last' = Call("remove_phone", <<raw>>, r.err, r.ret, book)
    /\ UNCHANGED <<notebook, now, disk, run>>

EditPhone(old, new) ==
    /\ LET r == Record_edit_phone(book[1].rec, old, new)
       IN  /\ book' = [book EXCEPT ![1].rec = r.rec]
           /\ last' = Call("edit_phone", <<old, new>>, r.err, r.ret, book)
    /\ UNCHANGED <<notebook, now, disk, run>>

NextRecord ==
    \/ \E raw \in RawPhones : AddPhone(raw)
    \/ \E raw \in RawPhones : FindPhone(raw)
    \/ \E raw \in RawPhones : RemovePhone(raw)
    \/ \E old \in OldPhones, new \in RawPhones : EditPhone(old, new)

SpecRecord == InitRecord /\ [][NextRecord]_vars

\* A string of exactly ten decimal digits.
TenDigits(v) == Len(v) = 10 /\ \A i \in 1..Len(v) : v[i] \in AsciiDigits

\* The positions of phones whose value is the digit characters of raw.
Holding(phones, raw) ==
    {i \in 1..Len(phones) : phones[i].value = SelectSeq(raw, IsDigit)}

\* C4: after any sequence of add_phone, edit_phone and remove_phone calls,
\* failed ones included, every phone of the record is a string of exactly
\* ten digits; a raw value handed to Phone whose normalized digit string is
\* not ten long is refused with ValueError and the list is unchanged.
C4_PhonesTenDigits ==
    /\ \A i \in 1..Len(book[1].rec.phones) :
          TenDigits(book[1].rec.phones[i].value)
    /\ (/\ last.op = "add_phone"
        /\ Len(Phone_clean_and_normalize_phone(last.args[1])) # 10)
          => (last.err = "ValueError" /\ book = last.pre)
    /\ (/\ last.op = "edit_phone"
        /\ Holding(last.pre[1].rec.phones, last.args[1]) # {}
        /\ Len(Phone_clean_and_normalize_phone(last.args[2])) # 10)
          => (last.err = "ValueError" /\ book = last.pre)

\* A number of eleven digits was refused by add_phone on a record that
\* already holds phones.
C4_Witness ==
    /\ last.op = "add_phone" /\ last.err = "ValueError"
    /\ Len(Phone_clean_and_normalize_phone(last.args[1])) > 10
    /\ Len(book[1].rec.phones) >= 1

\* C8: when no phone of the record equals the digits of the raw value,
\* find_phone returns None, remove_phone and edit_phone return False, none
\* raises (edit_phone also when the new value is no valid phone), and the
\* phone list is unchanged.
C8_AbsentPhoneDegrades ==
    (/\ last.op \in {"find_phone", "remove_phone", "edit_phone"}
     /\ Holding(last.pre[1].rec.phones, last.args[1]) = {})
        => /\ last.err = NoErr
           /\ book = last.pre
           /\ last.op = "find_phone" => last.ret = 0
           /\ last.op \in {"remove_phone", "edit_phone"} => last.ret = FALSE

\* edit_phone with an absent old number and an invalid new one, on a record
\* that holds phones.
C8_Witness ==
    /\ last.op = "edit_phone" /\ last.ret = FALSE /\ last.err = NoErr
    /\ Phone(last.args[2]).err # NoErr
    /\ Len(book[1].rec.phones) >= 1

\* C9: edit_phone(old, new) with old present validates new before it
\* mutates: an invalid new fails with ValueError and the list is unchanged;
\* a valid new goes, normalized, into the first slot that holds old, and the
\* length of the list and every other slot are unchanged.
C9_EditPhoneFrame ==
    (/\ last.op = "edit_phone"
     /\ Holding(last.pre[1].rec.phones, last.args[1]) # {})
        => LET before == last.pre[1].rec.phones
               after == book[1].rec.phones
               hits == Holding(before, last.args[1])
               first == CHOOSE i \in hits : \A j \in hits : i <= j
               digits == Phone_clean_and_normalize_phone(last.args[2])
           IN  IF Len(digits) # 10
               THEN last.err = "ValueError" /\ book = last.pre
               ELSE /\ last.err = NoErr /\ last.ret = TRUE
                    /\ Len(after) = Len(before)
                    /\ after[first].value = digits
                    /\ \A i \in 1..Len(before) : i # first => after[i] = before[i]
                    /\ book = [last.pre EXCEPT ![1].rec.phones = after]

\* The old number stood in two slots and only the first one was changed.
C9_Witness ==
    /\ last.op = "edit_phone" /\ last.ret = TRUE
    /\ LET before == last.pre[1].rec.phones
       IN  /\ Len(before) >= 2
           /\ before[1] = before[2]
           /\ book[1].rec.phones[1] # before[1]
           /\ book[1].rec.phones[2] = before[2]

\* ------------------------------------------------------------------------
\* Phone construction over generated raw values
\* ------------------------------------------------------------------------
PreChars == {"0", "3", "8", "+"}

\* Every string over PreChars of at most MaxPre characters, followed by
\* seven to ten sevens: from seven digits up to ten digits behind a prefix.
GenPhones ==
    {pre \o [i \in 1..k |-> "7"] :
        pre \in UNION {[1..n -> PreChars] : n \in 0..MaxPre}, k \in 7..10}

\* A raw value is given ...
InitPhone ==
    /\ book = <<>>
    /\ notebook = <<>>
    /\ now = Clock0
    /\ disk = NoFiles
    /\ run = NotRun
    /\ \E raw \in GenPhones : last = Call("input", <<raw>>, NoErr, NoRet, book)

\* ... and Phone is constructed from it.
NewPhone ==
    /\ last.op = "input"
    /\ LET p == Phone(last.args[1])
       IN  last' = Call("Phone", last.args, p.err, p.value, book)
    /\ UNCHANGED <<book, notebook, now, disk, run>>

NextPhone == NewPhone

SpecPhone == InitPhone /\ [][NextPhone]_vars

InitBirthday ==
    /\ book = <<[key |-> John, rec |-> Record(John)]>>
    /\ notebook = <<>>
    /\ now = Clock0
    /\ disk = NoFiles
    /\ run = NotRun
    /\ last = NoCall

AddBirthday(raw) ==
    /\ LET r == Record_add_birthday(book[1].rec, raw, now)
       IN  /\ book' = [book EXCEPT ![1].rec = r.rec]
           /\ last' = Call("add_birthday", <<raw>>, r.err, NoRet, book)
    /\ UNCHANGED <<notebook, now, disk, run>>

\* Midnight passes.
Tick ==
    /\ Ordinal(now) - Ordinal(Clock0) < MaxTicks
    /\ now' = NextDay(now)
    /\ last' = Call("tick", <<>>, NoErr, NoRet, book)
    /\ UNCHANGED <<book, notebook, disk, run>>

NextBirthday ==
    \/ \E raw \in BirthdayRaws : AddBirthday(raw)
    \/ Tick

SpecBirthday == InitBirthday /\ [][NextBirthday]_vars

\* Every birthday stored in data is a day that is not after day.
NoBirthdayAfter(data, day) ==
    \A i \in 1..Len(data) :
        \A k \in 1..Len(data[i].rec.birthday) :
            ~DateLess(day, data[i].rec.birthday[k].value)

\* C10 as stated: add_birthday with a well-formed date after the current
\* moment fails with FutureDateError and with an unparseable string fails
\* with InvalidDateFormatError, the birthday of the record stays as it was,
\* and no stored birthday is later than the moment it was set.
C10_FutureDateError ==
    /\ last.op = "add_birthday" =>
          LET parsed == Strptime(last.args[1])
          IN  /\ (parsed.err = NoErr /\ DateLess(now, parsed.value))
                    => (last.err = "FutureDateError" /\ book = last.pre)
              /\ parsed.err # NoErr
                    => (last.err = "InvalidDateFormatError" /\ book = last.pre)
    /\ NoBirthdayAfter(book, now)

\* ------------------------------------------------------------------------
\* Command handlers (handlers.py) behind input_error (decorators.py)
\* ------------------------------------------------------------------------

\* input_error: the reply for the exception a handler raised.
input_error(err) ==
    CASE err = NoErr -> "done"
      [] err = "ValueError" -> "invalid data"
      [] err = "IndexError" -> "not enough arguments"
      [] err = "KeyError" -> "not found"
      [] err = "AttributeError" -> "attribute error"
      [] OTHER -> "unexpected error"

\* " ".join(parts)
RECURSIVE Join(_)
Join(parts) ==
    IF parts = <<>> THEN <<>>
    ELSE IF Len(parts) = 1 THEN parts[1]
    ELSE parts[1] \o <<" ">> \o Join(Tail(parts))

\* The position of the entry of data stored under exactly this key.
KeyIndex(data, key) == CHOOSE i \in 1..Len(data) : data[i].key = key

\* add_contact: find the record or create and store it, then add the phone.
add_contact(args, data) ==
    IF Len(args) < 2 THEN [data |-> data, err |-> "ValueError"]
    ELSE LET contact_name == args[1]
             contact_phone_number == args[2]
             found == AddressBook_find(data, contact_name)
             stored == IF found = 0
                       THEN AddressBook_add_record(data, Record(contact_name))
                       ELSE [data |-> data, err |-> NoErr]
         IN  IF stored.err # NoErr THEN stored
             ELSE LET i == IF found = 0
                           THEN KeyIndex(stored.data, contact_name)
                           ELSE found
                      r == Record_add_phone(stored.data[i].rec, contact_phone_number)
                  IN  [data |-> [stored.data EXCEPT ![i].rec = r.rec],
                       err |-> r.err]

\* change_phone
change_phone(args, data) ==
    IF Len(args) < 3 THEN [data |-> data, err |-> "ValueError"]
    ELSE LET i == AddressBook_find(data, args[1])
         IN  IF i = 0 THEN [data |-> data, err |-> "KeyError"]
             ELSE LET r == Record_edit_phone(data[i].rec, args[2], args[3])
                  IN  IF r.err # NoErr THEN [data |-> data, err |-> r.err]
                      ELSE IF r.ret
                      THEN [data |-> [data EXCEPT ![i].rec = r.rec], err |-> NoErr]
                      ELSE [data |-> data, err |-> "ValueError"]

\* delete_contact
delete_contact(args, data) ==
    IF Len(args) < 1 THEN [data |-> data, err |-> "ValueError"]
    ELSE IF AddressBook_find(data, args[1]) = 0
    THEN [data |-> data, err |-> "KeyError"]
    ELSE [data |-> AddressBook_delete(data, args[1]).data, err |-> NoErr]

\* add_email
add_email(args, data) ==
    IF Len(args) < 2 THEN [data |-> data, err |-> "ValueError"]
    ELSE LET i == AddressBook_find(data, args[1])
         IN  IF i = 0 THEN [data |-> data, err |-> "KeyError"]
             ELSE LET r == Record_add_email(data[i].rec, args[2])
                  IN  [data |-> [data EXCEPT ![i].rec = r.rec], err |-> r.err]

\* add_address
add_address(args, data) ==
    IF Len(args) < 2 THEN [data |-> data, err |-> "ValueError"]
    ELSE LET address == Join(Tail(args))
             i == AddressBook_find(data, args[1])
         IN  IF i = 0 THEN [data |-> data, err |-> "KeyError"]
             ELSE LET r == Record_add_address(data[i].rec, address)
                  IN  [data |-> [data EXCEPT ![i].rec = r.rec], err |-> r.err]

\* add_birthday: for an unknown name add_record is handed the name, a str,
\* and record.name raises AttributeError.
add_birthday(args, data, current) ==
    IF Len(args) < 2 THEN [data |-> data, err |-> "ValueError"]
    ELSE LET i == AddressBook_find(data, args[1])
         IN  IF i = 0 THEN [data |-> data, err |-> "AttributeError"]
             ELSE LET r == Record_add_birthday(data[i].rec, args[2], current)
                  IN  [data |-> [data EXCEPT ![i].rec = r.rec], err |-> r.err]

CmdNames == {John, john, Ann}

CmdPhones == {<<"+", "3", "8">> \o Ph050, <<"1", "2", "3">>}

CmdDates ==
    {Strftime(Date(1990, 3, 10)), Strftime(Date(2025, 3, 11)), <<"a", "b", "c">>}

CmdEmails == {<<"a", "@", "b", ".", "c", "c">>}

CmdAddress == <<<<"K", "y", "i", "v">>, <<"1">>>>

\* The word lists of a command: the name alone, and the name with each of
\* the given tails.
WithName(tails) ==
    {<<n>> : n \in CmdNames} \cup {<<n>> \o t : n \in CmdNames, t \in tails}

\* The book stays within the bounds of the model.
CmdBounded(data) ==
    /\ Len(data) <= MaxCmdBook
    /\ \A i \in 1..Len(data) :
          /\ Len(data[i].rec.phones) <= MaxCmdList
          /\ Len(data[i].rec.addresses) <= MaxCmdList

InitCmd ==
    /\ book = <<>>
    /\ notebook = <<>>
    /\ now = Clock0
    /\ disk = NoFiles
    /\ run = NotRun
    /\ last = NoCall

\* One command: the handler runs and input_error turns its error, if any,
\* into the reply.
Command(op, args, r) ==
    /\ CmdBounded(r.data)
    /\ book' = r.data
    /\ last' = Call(op, args, r.err, input_error(r.err), book)
    /\ UNCHANGED <<notebook, now, disk, run>>

CmdAdd(args) == Command("add", args, add_contact(args, book))

CmdChange(args) == Command("change", args, change_phone(args, book))

CmdDelete(args) == Command("delete", args, delete_contact(args, book))

CmdAddEmail(args) == Command("add-email", args, add_email(args, book))

CmdAddAddress(args) == Command("add-address", args, add_address(args, book))

CmdAddBirthday(args) ==
    Command("add-birthday", args, add_birthday(args, book, now))

NextCmd ==
    \/ \E args \in {<<>>} \cup WithName({<<p>> : p \in CmdPhones}) : CmdAdd(args)
    \/ \E args \in WithName({<<Ph050, p>> : p \in {Ph067, <<"1", "2", "3">>}}) :
          CmdChange(args)
    \/ \E args \in {<<>>} \cup WithName({}) : CmdDelete(args)
    \/ \E args \in WithName({<<e>> : e \in CmdEmails}) : CmdAddEmail(args)
    \/ \E args \in WithName({CmdAddress}) : CmdAddAddress(args)
    \/ \E args \in WithName({<<d>> : d \in CmdDates}) : CmdAddBirthday(args)

SpecCmd == InitCmd /\ [][NextCmd]_vars

\* C3 as stated: a contact command that ends in an error leaves the
\* AddressBook exactly as it was before the command; the add command with a
\* name not in the book and a phone that fails validation leaves no new
\* Record.
C3_NoPartialSuccess ==
    last.err # NoErr => book = last.pre

\* ------------------------------------------------------------------------
\* AddressBook.get_upcoming_birthdays (entities.py 425-522)
\* ------------------------------------------------------------------------
\* A value of the class datetime.date and one of datetime.datetime (at
\* midnight), each on the calendar day at.
PyDate(at) == [cls |-> "date", at |-> at]

PyDatetime(at) == [cls |-> "datetime", at |-> at]

\* a < b and a <= b between date and datetime values: a datetime and a date
\* do not order, the comparison raises TypeError.
PyLess(a, b) ==
    IF a.cls # b.cls THEN [err |-> "TypeError", ret |-> FALSE]
    ELSE [err |-> NoErr, ret |-> DateLess(a.at, b.at)]

PyLessEq(a, b) ==
    IF a.cls # b.cls THEN [err |-> "TypeError", ret |-> FALSE]
    ELSE [err |-> NoErr, ret |-> ~DateLess(b.at, a.at)]

\* value.replace(year=y): the same day and month in year y, ValueError when
\* year y has no such day.
PyReplaceYear(v, y) ==
    IF ValidDate(y, v.at.m, v.at.d)
    THEN [err |-> NoErr, value |-> [v EXCEPT !.at.y = y]]
    ELSE [err |-> "ValueError", value |-> v]

\* value + timedelta(days=n), n >= 0.
RECURSIVE AddDays(_, _)
AddDays(dt, n) == IF n = 0 THEN dt ELSE AddDays(NextDay(dt), n - 1)

\* date.weekday(): 0 for Monday, 5 for Saturday, 6 for Sunday.
Weekday(dt) == (Ordinal(dt) + 6) % 7

\* AddressBook._move_weekend_to_monday
AddressBook_move_weekend_to_monday(day) ==
    LET weekday == Weekday(day.at)
    IN  IF weekday = 5 THEN [day EXCEPT !.at = AddDays(@, 2)]
        ELSE IF weekday = 6 THEN [day EXCEPT !.at = AddDays(@, 1)]
        ELSE day

\* AddressBook._get_birthday_date: the stored value of the Birthday, which
\* is the datetime that strptime returned.
AddressBook_get_birthday_date(record) == PyDatetime(record.birthday[1].value)

\* The body of the loop of get_upcoming_birthdays for one record that has a
\* birthday: the error it raises, whether it appends, and the item.
UpcomingItem(record, today, window_end) ==
    LET birthday == AddressBook_get_birthday_date(record)
        birthday_this_year == PyReplaceYear(birthday, today.at.y)
        passed == PyLess(birthday_this_year.value, today)
        next_year == PyReplaceYear(birthday, today.at.y + 1)
        next_birthday == IF passed.ret THEN next_year.value
                         ELSE birthday_this_year.value
        lower == PyLessEq(today, next_birthday)
        upper == PyLessEq(next_birthday, window_end)
        item == [name |-> record.name.value,
                 birthday |-> Strftime(birthday.at),
                 congratulation_date |->
                     Strftime(AddressBook_move_weekend_to_monday(next_birthday).at)]
        done(err, hit) == [err |-> err, hit |-> hit, item |-> item]
    IN  IF birthday_this_year.err # NoErr THEN done(birthday_this_year.err, FALSE)
        ELSE IF passed.err # NoErr THEN done(passed.err, FALSE)
        ELSE IF passed.ret /\ next_year.err # NoErr THEN done(next_year.err, FALSE)
        ELSE IF lower.err # NoErr THEN done(lower.err, FALSE)
        ELSE IF ~lower.ret THEN done(NoErr, FALSE)
        ELSE IF upper.err # NoErr THEN done(upper.err, FALSE)
        ELSE done(NoErr, upper.ret)

\* The loop over self.data.values() from record i on; the first error ends
\* the call.
RECURSIVE UpcomingLoop(_, _, _, _, _)
UpcomingLoop(data, i, today, window_end, result) ==
    IF i > Len(data) THEN [err |-> NoErr, ret |-> result]
    ELSE IF data[i].rec.birthday = <<>>
         THEN UpcomingLoop(data, i + 1, today, window_end, result)
    ELSE LET step == UpcomingItem(data[i].rec, today, window_end)
         IN  IF step.err # NoErr THEN [err |-> step.err, ret |-> <<>>]
             ELSE UpcomingLoop(data, i + 1, today, window_end,
                      IF step.hit THEN Append(result, step.item) ELSE result)

\* The characters of the model in the order of their code points.
CodePoints ==
    <<" ", "+", "-", ".", "0", "1", "2", "3", "4", "5", "6", "7", "8", "9",
      "@", "A", "B", "C", "D", "E", "F", "G", "H", "I", "J", "K", "L", "M",
      "N", "O", "P", "Q", "R", "S", "T", "U", "V", "W", "X", "Y", "Z",
      "a", "b", "c", "d", "e", "f", "g", "h", "i", "j", "k", "l", "m",
      "n", "o", "p", "q", "r", "s", "t", "u", "v", "w", "x", "y", "z",
      "²", "ß">>

\* The rank of a character in that order.
Ord(c) == CHOOSE i \in 1..Len(CodePoints) : CodePoints[i] = c

\* a < b for two str values: the first difference decides, a proper prefix
\* is smaller.
RECURSIVE StrLess(_, _)
StrLess(a, b) ==
    IF b = <<>> THEN FALSE
    ELSE IF a = <<>> THEN TRUE
    ELSE IF a[1] # b[1] THEN Ord(a[1]) < Ord(b[1])
    ELSE StrLess(Tail(a), Tail(b))

\* The sort key of an item, (datetime of the congratulation date, case-folded
\* name), and the order of two keys as tuples.
UpcomingKey(item) ==
    [at |-> Strptime(item.congratulation_date).value,
     name |-> casefold(item.name)]

KeyLess(k1, k2) ==
    \/ DateLess(k1.at, k2.at)
    \/ k1.at = k2.at /\ StrLess(k1.name, k2.name)

\* list.sort(key=...): stable, ascending.  x goes behind every element of
\* the sorted list whose key is not greater than its own.
RECURSIVE SortInsert(_, _)
SortInsert(sorted, x) ==
    IF sorted = <<>> THEN <<x>>
    ELSE IF KeyLess(UpcomingKey(x), UpcomingKey(sorted[Len(sorted)]))
         THEN Append(SortInsert(SubSeq(sorted, 1, Len(sorted) - 1), x),
                     sorted[Len(sorted)])
         ELSE Append(sorted, x)

RECURSIVE SortByKey(_)
SortByKey(s) ==
    IF s = <<>> THEN <<>>
    ELSE SortInsert(SortByKey(SubSeq(s, 1, Len(s) - 1)), s[Len(s)])

\* AddressBook.get_upcoming_birthdays(days) called on the day current.
AddressBook_get_upcoming_birthdays(data, days, current) ==
    LET today == PyDate(current)
        window_end == PyDate(AddDays(current, days))
        looped == UpcomingLoop(data, 1, today, window_end, <<>>)
    IN  IF looped.err # NoErr THEN looped
        ELSE [err |-> NoErr, ret |-> SortByKey(looped.ret)]

\* The names of the birthday book and the birthdays given to its records:
\* a Saturday, a Sunday and a Tuesday of the week after the clock's first
\* day, the day before that first day, and a leap day.
UpNames == {Ann, John, ANN}

UpRaws ==
    {Strftime(Date(1990, 3, 15)), Strftime(Date(1991, 3, 16)),
     Strftime(Date(1990, 3, 18)), Strftime(Date(1990, 3, 9)),
     Strftime(Date(2024, 2, 29))}

UpDays == {0, 7}

\* add_birthday on the record at position i of the book.
AddBirthdayTo(i, raw) ==
    /\ i \in 1..Len(book)
    /\ LET r == Record_add_birthday(book[i].rec, raw, now)
       IN  /\ book' = [book EXCEPT ![i].rec = r.rec]
           /\ last' = Call("add_birthday", <<i, raw>>, r.err, NoRet, book)
    /\ UNCHANGED <<notebook, now, disk, run>>

GetUpcomingBirthdays(days) ==
    /\ LET r == AddressBook_get_upcoming_birthdays(book, days, now)
       IN  last' = Call("get_upcoming_birthdays", <<days>>, r.err, r.ret, book)
    /\ UNCHANGED <<book, notebook, now, disk, run>>

NextUpcoming ==
    \/ \E n \in UpNames : AddRecord(Record(n))
    \/ \E i \in 1..MaxBook, raw \in UpRaws : AddBirthdayTo(i, raw)
    \/ \E days \in UpDays : GetUpcomingBirthdays(days)
    \/ Tick

SpecUpcoming == InitBook /\ [][NextUpcoming]_vars

\* The next occurrence of a birthday seen from today: the day and month in
\* today's year, or in the next year when that day is before today.
NextOccurrence(birthday, today) ==
    LET this_year == Date(today.y, birthday.m, birthday.d)
    IN  IF DateLess(this_year, today)
        THEN Date(today.y + 1, birthday.m, birthday.d)
        ELSE this_year

\* The record has a birthday whose next occurrence is in today..today+days.
InWindow(rec, today, days) ==
    /\ rec.birthday # <<>>
    /\ LET occurrence == NextOccurrence(rec.birthday[1].value, today)
       IN  /\ ~DateLess(occurrence, today)
           /\ ~DateLess(AddDays(today, days), occurrence)

\* No birthday of the book is a 29 February.
NoLeapDay(data) ==
    \A i \in 1..Len(data) :
        data[i].rec.birthday # <<>> =>
            ~(data[i].rec.birthday[1].value.m = 2
              /\ data[i].rec.birthday[1].value.d = 29)

\* C11 as stated: get_upcoming_birthdays(days) returns an entry for a record
\* exactly when the record has a birthday whose next occurrence is between
\* today and today + days inclusive, and each such record appears once.
C11_UpcomingExactly ==
    (last.op = "get_upcoming_birthdays" /\ NoLeapDay(book)) =>
        /\ last.err = NoErr
        /\ \A i \in 1..Len(book) :
              Cardinality({j \in 1..Len(last.ret) :
                              last.ret[j].name = book[i].rec.name.value})
                  = IF InWindow(book[i].rec, now, last.args[1]) THEN 1 ELSE 0
        /\ Len(last.ret)
              = Cardinality({i \in 1..Len(book) :
                                InWindow(book[i].rec, now, last.args[1])})

\* C12 as stated: no returned congratulation date is a Saturday or a Sunday,
\* and on Monday 10.03.2025 the book that holds Ann, born 15.03.1990, gives
\* Ann the congratulation date 17.03.2025 for get_upcoming_birthdays(7).
C12_CongratulationOnWeekday ==
    last.op = "get_upcoming_birthdays" =>
        /\ \A j \in 1..Len(last.ret) :
              Weekday(Strptime(last.ret[j].congratulation_date).value)
                  \notin {5, 6}
        /\ (/\ now = Date(2025, 3, 10)
            /\ last.args = <<7>>
            /\ Len(book) = 1
            /\ book[1].rec.name.value = Ann
            /\ book[1].rec.birthday = <<[value |-> Date(1990, 3, 15)]>>)
               => /\ last.err = NoErr
                  /\ \E j \in 1..Len(last.ret) :
                        /\ last.ret[j].name = Ann
                        /\ last.ret[j].congratulation_date
                               = Strftime(Date(2025, 3, 17))

\* C13 as stated: for every content and insertion order of the book the
\* call returns a list in ascending order of congratulation date, compared
\* as dates, and of case-folded name among equal dates.
C13_SortedByDateThenName ==
    (last.op = "get_upcoming_birthdays" /\ NoLeapDay(book)) =>
        /\ last.err = NoErr
        /\ \A j, k \in 1..Len(last.ret) :
              j < k => ~KeyLess(UpcomingKey(last.ret[k]), UpcomingKey(last.ret[j]))

\* ------------------------------------------------------------------------
\* AddressBook.search (entities.py 400-421, 524-567)
\* ------------------------------------------------------------------------
MaxSearchList == 1

\* q in field for two str values: q is a substring of field.
Contains(field, q) ==
    \E i \in 0..(Len(field) - Len(q)) : SubSeq(field, i + 1, i + Len(q)) = q

\* AddressBook._normalize_value of an object with .value
AddressBook_normalize_value(value) == casefold(value.value)

\* AddressBook._collect_search_fields: the case-folded name, phone values,
\* emails and addresses of the record, in this order.
AddressBook_collect_search_fields(record) ==
    <<casefold(record.name.value)>>
        \o [i \in 1..Len(record.phones) |-> casefold(record.phones[i].value)]
        \o [i \in 1..Len(record.emails) |->
               AddressBook_normalize_value(record.emails[i])]
        \o [i \in 1..Len(record.addresses) |->
               AddressBook_normalize_value(record.addresses[i])]

\* Variant: the query is compared as it was typed.
AddressBook_search_raw_query(data, query) ==
    LET Hit(i) ==
            LET fields == AddressBook_collect_search_fields(data[i].rec)
            IN  \E f \in 1..Len(fields) : Contains(fields[f], query)
    IN  SelectSeq([i \in 1..Len(data) |-> i], Hit)

\* AddressBook.search: the records, as positions in the order of the dict,
\* one of whose fields contains the case-folded query.
AddressBook_search(data, query) ==
    LET q == casefold(query)
        Hit(i) ==
            LET fields == AddressBook_collect_search_fields(data[i].rec)
            IN  \E f \in 1..Len(fields) : Contains(fields[f], q)
    IN  SelectSeq([i \in 1..Len(data) |-> i], Hit)

Oslo == <<"O", "s", "l", "o">>

SearchNames == {John, Eszett, SS}

SearchPhones == {Ph050, Ph067}

SearchQueries ==
    { <<"j", "o">>, JOHN, <<"S">>, Eszett, <<"0", "5", "0">>,
      <<"O", "S", "L", "O">>, <<"h", "n", "0">>, <<"x">>, <<>> }

\* add_phone and add_address on the record at position i of the book.
AddPhoneTo(i, raw) ==
    /\ i \in 1..Len(book)
    /\ LET r == Record_add_phone(book[i].rec, raw)
       IN  /\ Len(r.rec.phones) <= MaxSearchList
           /\ book' = [book EXCEPT ![i].rec = r.rec]
           /\ last' = Call("add_phone", <<i, raw>>, r.err, NoRet, book)
    /\ UNCHANGED <<notebook, now, disk, run>>

AddAddressTo(i, raw) ==
    /\ i \in 1..Len(book)
    /\ LET r == Record_add_address(book[i].rec, raw)
       IN  /\ Len(r.rec.addresses) <= MaxSearchList
           /\ book' = [book EXCEPT ![i].rec = r.rec]
           /\ last' = Call("add_address", <<i, raw>>, r.err, NoRet, book)
    /\ UNCHANGED <<notebook, now, disk, run>>

Search(query) ==
    /\ last' = Call("search", <<query>>, NoErr, AddressBook_search(book, query), book)
    /\ UNCHANGED <<book, notebook, now, disk, run>>

NextSearch ==
    \/ \E n \in SearchNames : AddRecord(Record(n))
    \/ \E i \in 1..MaxBook, raw \in SearchPhones : AddPhoneTo(i, raw)
    \/ \E i \in 1..MaxBook : AddAddressTo(i, Oslo)
    \/ \E query \in SearchQueries : Search(query)

SpecSearch == InitBook /\ [][NextSearch]_vars

\* The case-folded query is a substring of the case-folded name or of the
\* case-folded value of some phone, email or address of the record.
QueryMatches(rec, query) ==
    LET q == casefold(query)
    IN  \/ Contains(casefold(rec.name.value), q)
        \/ \E i \in 1..Len(rec.phones) : Contains(casefold(rec.phones[i].value), q)
        \/ \E i \in 1..Len(rec.emails) : Contains(casefold(rec.emails[i].value), q)
        \/ \E i \in 1..Len(rec.addresses) :
              Contains(casefold(rec.addresses[i].value), q)

\* C14: search(query) returns exactly the records for which the case-folded
\* query is a substring of the case-folded name or of some phone, email or
\* address value, in the insertion order of the book, and leaves the book
\* as it was.
C14_SearchExactlyMatching ==
    last.op = "search" =>
        /\ last.err = NoErr
        /\ book = last.pre
        /\ \A i \in 1..Len(book) :
              QueryMatches(book[i].rec, last.args[1])
                  <=> \E j \in 1..Len(last.ret) : last.ret[j] = i
        /\ \A j, k \in 1..Len(last.ret) : j < k => last.ret[j] < last.ret[k]

\* A query in capitals that only the address of the second of two records
\* matches.
C14_Witness ==
    /\ last.op = "search" /\ Len(book) = 2
    /\ last.args[1] # casefold(last.args[1])
    /\ last.ret = <<2>>
    /\ ~Contains(casefold(book[2].rec.name.value), casefold(last.args[1]))

\* ------------------------------------------------------------------------
\* Commands that name a contact not yet in the book (handlers.py 19-39,
\* 331-344)
\* ------------------------------------------------------------------------
\* C15 as stated: an add or add-birthday command whose name no stored key
\* case-folds to and whose phone or date is valid leaves the book with a
\* record of that name that carries the phone or the birthday.
C15_CreatedOnFirstReference ==
    (/\ last.op \in {"add", "add-birthday"}
     /\ Len(last.args) = 2
     /\ ~FoldPresent(last.pre, last.args[1])
     /\ last.op = "add" => Phone(last.args[2]).err = NoErr
     /\ last.op = "add-birthday" => Birthday(last.args[2], now).err = NoErr)
        => \E i \in 1..Len(book) :
              /\ book[i].rec.name.value = last.args[1]
              /\ last.op = "add" =>
                    \E j \in 1..Len(book[i].rec.phones) :
                        book[i].rec.phones[j].value = Phone(last.args[2]).value
              /\ last.op = "add-birthday" =>
                    book[i].rec.birthday
                        = <<[value |-> Birthday(last.args[2], now).value]>>

\* ------------------------------------------------------------------------
\* Record under add_address and add_email (entities.py 744-760)
\* ------------------------------------------------------------------------
MaxFields == 2

Letters == {UpperCase[i] : i \in 1..Len(UpperCase)}
               \cup {LowerCase[i] : i \in 1..Len(LowerCase)}

\* The character classes of Email.pattern.
EmailLocalChars == Letters \cup AsciiDigits \cup {".", "_", "%", "+", "-"}

EmailDomainChars == Letters \cup AsciiDigits \cup {".", "-"}

\* Email.is_valid_email: re.match of
\* ^[a-zA-Z0-9._%+-]+@[a-zA-Z0-9.-]+\.[a-zA-Z]{2,}$ ; the $ also matches in
\* front of a newline that ends the string.
Email_is_valid_email(email) ==
    LET s == IF email # <<>> /\ email[Len(email)] = "\n"
             THEN SubSeq(email, 1, Len(email) - 1)
             ELSE email
    IN  \E a, k \in 1..Len(s) :
            /\ s[a] = "@"
            /\ a > 1
            /\ \A i \in 1..(a - 1) : s[i] \in EmailLocalChars
            /\ s[k] = "."
            /\ k > a + 1
            /\ \A i \in (a + 1)..(k - 1) : s[i] \in EmailDomainChars
            /\ Len(s) - k >= 2
            /\ \A i \in (k + 1)..Len(s) : s[i] \in Letters

AddressRaws ==
    { Oslo, <<" ">> \o Oslo \o <<" ">>, <<" ", " ">>, <<>>,
      <<"K", "y", "i", "v", " ", "1">> }

EmailRaws ==
    { <<"a", "@", "b", ".", "c", "c">>,
      <<"A", ".", "b", "+", "1", "@", "x", "-", "y", ".", "O", "r", "g">>,
      <<"a", "@", "b", ".", "c">>,
      <<"a", "@", "b">>,
      <<"a", "b", ".", "c", "c">>,
      <<"a", " ", "@", "b", ".", "c", "c">>,
      <<>> }

AddAddress(raw) ==
    /\ LET r == Record_add_address(book[1].rec, raw)
       IN  /\ Len(r.rec.addresses) <= MaxFields
           /\ book' = [book EXCEPT ![1].rec = r.rec]
           /\ last' = Call("add_address", <<raw>>, r.err, NoRet, book)
    /\ UNCHANGED <<notebook, now, disk, run>>

AddEmail(raw) ==
    /\ LET r == Record_add_email(book[1].rec, raw)
       IN  /\ Len(r.rec.emails) <= MaxFields
           /\ book' = [book EXCEPT ![1].rec = r.rec]
           /\ last' = Call("add_email", <<raw>>, r.err, NoRet, book)
    /\ UNCHANGED <<notebook, now, disk, run>>

NextFields ==
    \/ \E raw \in AddressRaws : AddAddress(raw)
    \/ \E raw \in EmailRaws : AddEmail(raw)

SpecFields == InitRecord /\ [][NextFields]_vars

\* C16 as stated: add_address with an empty or all-whitespace value fails
\* and leaves the address list unchanged; any other value is appended
\* trimmed; so every stored address is non-empty and has no whitespace at
\* either end.
C16_AddressTrimmedOrRejected ==
    /\ last.op = "add_address" =>
          IF Strip(last.args[1]) = <<>>
          THEN last.err # NoErr /\ book = last.pre
          ELSE /\ last.err = NoErr
               /\ book[1].rec.addresses
                      = Append(last.pre[1].rec.addresses,
                               [value |-> Strip(last.args[1])])
    /\ \A i \in 1..Len(book[1].rec.addresses) :
          /\ book[1].rec.addresses[i].value # <<>>
          /\ Strip(book[1].rec.addresses[i].value) = book[1].rec.addresses[i].value

\* C17 as stated: add_email with a value that matches the pattern appends
\* one email with that value at the end of the list, also when an equal one
\* is there; with any other value it fails and the list is unchanged.
C17_EmailAppendedOrRejected ==
    last.op = "add_email" =>
        IF Email_is_valid_email(last.args[1])
        THEN /\ last.err = NoErr
             /\ book[1].rec.emails
                    = Append(last.pre[1].rec.emails, [value |-> last.args[1]])
        ELSE last.err # NoErr /\ book = last.pre

\* ------------------------------------------------------------------------
\* Note and Notebook (entities.py 8-27, 117-193)
\* ------------------------------------------------------------------------
\* The notebook is the dict _notes: a sequence of [key, note] entries in
\* insertion order.  created_at is the calendar day of datetime.now().
MaxNotes == 2

\* Note.__init__: a blank title or content raises ValueError; both are
\* stored as given.
Note(title, content, current) ==
    [err |-> IF Strip(title) = <<>> \/ Strip(content) = <<>>
             THEN "ValueError" ELSE NoErr,
     note |-> [title |-> title, content |-> content,
               created_at |-> current, tags |-> <<>>]]

\* The position of key in the dict, 0 when it is no key.
NoteIndex(notes, key) ==
    IF \E i \in 1..Len(notes) : notes[i].key = key
    THEN CHOOSE i \in 1..Len(notes) : notes[i].key = key
    ELSE 0

\* Variant: the title is the key as it is, untrimmed.
Notebook_add_note_raw_key(notes, note) ==
    LET key == note.title
    IN  IF key = <<>> THEN [notes |-> notes, err |-> "ValueError"]
        ELSE IF NoteIndex(notes, key) # 0
             THEN [notes |-> notes, err |-> "ValueError"]
             ELSE [notes |-> Append(notes, [key |-> key, note |-> note]),
                   err |-> NoErr]

\* Notebook.add_note: the key is the trimmed title; an empty key and a key
\* already in the dict raise ValueError.
Notebook_add_note(notes, note) ==
    LET key == Strip(note.title)
    IN  IF key = <<>> THEN [notes |-> notes, err |-> "ValueError"]
        ELSE IF NoteIndex(notes, key) # 0
             THEN [notes |-> notes, err |-> "ValueError"]
             ELSE [notes |-> Append(notes, [key |-> key, note |-> note]),
                   err |-> NoErr]

\* Variant: the lookup compares case-folded strings.
Notebook_find_note_fold(notes, title) ==
    LET key == Strip(title)
        hits == {i \in 1..Len(notes) : casefold(notes[i].key) = casefold(key)}
    IN  IF key = <<>> \/ hits = {} THEN 0
        ELSE CHOOSE i \in hits : \A j \in hits : i <= j

\* Notebook.find_note: the note under the trimmed title, None when the
\* trimmed title is empty or no key.
Notebook_find_note(notes, title) ==
    LET key == Strip(title)
    IN  IF key = <<>> THEN 0 ELSE NoteIndex(notes, key)

\* Notebook.delete_note: pop the trimmed title; True when it was a key.
Notebook_delete_note(notes, title) ==
    LET key == Strip(title)
        i == NoteIndex(notes, key)
    IN  IF key = <<>> \/ i = 0 THEN [notes |-> notes, ret |-> FALSE]
        ELSE [notes |-> RemoveAt(notes, i), ret |-> TRUE]

\* Variant: created_at is renewed by every edit.
Notebook_edit_note_touch_always(notes, title, new_content, update_created_at, current) ==
    LET i == Notebook_find_note(notes, title)
    IN  IF i = 0 THEN [notes |-> notes, ret |-> FALSE]
        ELSE IF Strip(new_content) = <<>> THEN [notes |-> notes, ret |-> FALSE]
        ELSE [notes |-> [notes EXCEPT ![i].note.content = Strip(new_content),
                                      ![i].note.created_at = current],
              ret |-> TRUE]

\* Notebook.edit_note: False when the note is not found or the new content
\* is blank; else the trimmed new content replaces the content, created_at
\* becomes now when update_created_at is set, and the result is True.  The
\* new content is a str, which str() returns as it is.
Notebook_edit_note(notes, title, new_content, update_created_at, current) ==
    LET i == Notebook_find_note(notes, title)
    IN  IF i = 0 THEN [notes |-> notes, ret |-> FALSE]
        ELSE IF Strip(new_content) = <<>> THEN [notes |-> notes, ret |-> FALSE]
        ELSE [notes |->
                  [notes EXCEPT
                      ![i].note.content = Strip(new_content),
                      ![i].note.created_at =
                          IF update_created_at THEN current ELSE @],
              ret |-> TRUE]

NoteTitle == <<"T", "i", "t", "l", "e">>

NoteTitles ==
    { NoteTitle, <<"t", "i", "t", "l", "e">>,
      <<" ">> \o NoteTitle \o <<" ">>, <<" ", " ">> }

NoteContents == { <<"B", "o", "d", "y">>, <<" ">> }

NewContents == { <<" ", "N", "e", "w", " ">>, <<" ">> }

\* Note(title, content) is constructed and handed to add_note.
AddNote(title, content) ==
    /\ LET n == Note(title, content, now)
           r == IF n.err # NoErr THEN [notes |-> notebook, err |-> n.err]
                ELSE Notebook_add_note(notebook, n.note)
       IN  /\ Len(r.notes) <= MaxNotes
           /\ notebook' = r.notes
           /\ last' = Call("add_note", <<title, content>>, r.err, NoRet, notebook)
    /\ UNCHANGED <<book, now, disk, run>>

FindNote(title) ==
    /\ last' = Call("find_note", <<title>>, NoErr,
                    Notebook_find_note(notebook, title), notebook)
    /\ UNCHANGED <<book, notebook, now, disk, run>>

DeleteNote(title) ==
    /\ LET r == Notebook_delete_note(notebook, title)
       IN  /\ notebook' = r.notes
           /\ last' = Call("delete_note", <<title>>, NoErr, r.ret, notebook)
    /\ UNCHANGED <<book, now, disk, run>>

EditNote(title, new_content, update_created_at) ==
    /\ LET r == Notebook_edit_note(notebook, title, new_content,
                                   update_created_at, now)
       IN  /\ notebook' = r.notes
           /\ last' = Call("edit_note", <<title, new_content, update_created_at>>,
                           NoErr, r.ret, notebook)
    /\ UNCHANGED <<book, now, disk, run>>

NextNotebook ==
    \/ \E title \in NoteTitles, content \in NoteContents : AddNote(title, content)
    \/ \E title \in NoteTitles : FindNote(title)
    \/ \E title \in NoteTitles : DeleteNote(title)
    \/ \E title \in NoteTitles, new_content \in NewContents,
          update_created_at \in BOOLEAN :
              EditNote(title, new_content, update_created_at)
    \/ Tick

SpecNotebook == InitBook /\ [][NextNotebook]_vars

\* C18: after any sequence of add_note and delete_note calls no two keys of
\* the notebook are equal after trimming, and add_note with a note whose
\* trimmed title is a key already fails with the duplicate error
\* (ValueError) and leaves the stored notes as they were.
C18_NoteKeysUnique ==
    /\ \A i, j \in 1..Len(notebook) :
          Strip(notebook[i].key) = Strip(notebook[j].key) => i = j
    /\ (/\ last.op = "add_note"
        /\ \E i \in 1..Len(last.pre) : last.pre[i].key = Strip(last.args[1]))
           => last.err = "ValueError" /\ notebook = last.pre

\* A note with valid content whose title differs from a stored key only in
\* the blanks around it is refused.
C18_Witness ==
    /\ last.op = "add_note" /\ last.err = "ValueError"
    /\ Strip(last.args[2]) # <<>>
    /\ last.args[1] # Strip(last.args[1])
    /\ \E i \in 1..Len(notebook) : notebook[i].key = Strip(last.args[1])

\* C19: find_note and delete_note match a note only when the trimmed title
\* is character for character the stored key: with the note "Title" stored,
\* find_note("title") returns None and delete_note("title") returns False
\* and removes nothing, while find_note(" Title ") returns the note.
C19_ExactTitleMatch ==
    LET Holds(i) == last.pre[i].key = Strip(last.args[1])
    IN  /\ last.op = "find_note" =>
              /\ notebook = last.pre
              /\ IF \E i \in 1..Len(last.pre) : Holds(i)
                 THEN last.ret # 0 /\ Holds(last.ret)
                 ELSE last.ret = 0
        /\ last.op = "delete_note" =>
              IF \E i \in 1..Len(last.pre) : Holds(i)
              THEN /\ last.ret = TRUE
                   /\ notebook = SelectSeq(last.pre,
                                     LAMBDA e : e.key # Strip(last.args[1]))
              ELSE last.ret = FALSE /\ notebook = last.pre

\* delete_note("title") on a notebook that holds "Title" and no "title".
C19_Witness ==
    /\ last.op = "delete_note" /\ last.ret = FALSE
    /\ last.args[1] # NoteTitle
    /\ casefold(last.args[1]) = casefold(NoteTitle)
    /\ Len(notebook) = 1 /\ notebook[1].key = NoteTitle

\* C20: edit_note(title, new_content, touch) returns False and changes
\* nothing when no note has the trimmed title as its key or when
\* new_content is blank after trimming; otherwise it returns True, the
\* note's content becomes the trimmed new content, its title, its tags and
\* every other note stay as they were, and created_at becomes now when
\* touch is set and stays as it was when it is not.
C20_EditNoteFrame ==
    last.op = "edit_note" =>
        LET i == NoteIndex(last.pre, Strip(last.args[1]))
        IN  IF i = 0 \/ Strip(last.args[2]) = <<>>
            THEN last.ret = FALSE /\ notebook = last.pre
            ELSE /\ last.ret = TRUE
                 /\ Len(notebook) = Len(last.pre)
                 /\ \A j \in 1..Len(notebook) : j # i => notebook[j] = last.pre[j]
                 /\ notebook[i].key = last.pre[i].key
                 /\ notebook[i].note.title = last.pre[i].note.title
                 /\ notebook[i].note.tags = last.pre[i].note.tags
                 /\ notebook[i].note.content = Strip(last.args[2])
                 /\ notebook[i].note.created_at =
                        IF last.args[3] THEN now
                        ELSE last.pre[i].note.created_at

\* An edit without touch of the second of two notes, on a later day than
\* its creation.
C20_Witness ==
    /\ last.op = "edit_note" /\ last.ret = TRUE /\ last.args[3] = FALSE
    /\ Len(notebook) = 2
    /\ notebook[2].note.content = Strip(last.args[2])
    /\ notebook[2].note.content # last.pre[2].note.content
    /\ notebook[2].note.created_at # now

\* ------------------------------------------------------------------------
\* Note tags and Notebook.sort_by_tags (entities.py 29-58, 253-281)
\* ------------------------------------------------------------------------
\* str.lower of one character: upper case letters become lower case; the
\* sharp s stays as it is.
LowerChar(c) == IF c \in DOMAIN CaseFolding /\ c # "ß" THEN CaseFolding[c][1] ELSE c

lower(s) == [i \in 1..Len(s) |-> LowerChar(s[i])]

\* x in list
InList(list, x) == \E i \in 1..Len(list) : list[i] = x

\* Variant: the tag is appended whether or not the list holds it.
Note_add_tag_append(note, tag) ==
    LET normalized == lower(Strip(tag))
    IN  IF normalized = <<>> THEN note
        ELSE [note EXCEPT !.tags = Append(@, normalized)]

\* Note.add_tag: the trimmed lower-case tag is appended unless it is empty
\* or in the list.
Note_add_tag(note, tag) ==
    LET normalized == lower(Strip(tag))
    IN  IF normalized = <<>> THEN note
        ELSE IF InList(note.tags, normalized) THEN note
        ELSE [note EXCEPT !.tags = Append(@, normalized)]

\* Note.remove_tag: list.remove of the trimmed lower-case tag, which drops
\* its first occurrence; a tag not in the list is ignored.
Note_remove_tag(note, tag) ==
    LET normalized == lower(Strip(tag))
        hits == {i \in 1..Len(note.tags) : note.tags[i] = normalized}
    IN  IF normalized = <<>> \/ hits = {} THEN note
        ELSE [note EXCEPT
                 !.tags = RemoveAt(@, CHOOSE i \in hits : \A j \in hits : i <= j)]

\* {str(t).strip().lower() for t in tags if str(t).strip()}
NormalizedTags(tags) ==
    {lower(Strip(tags[i])) : i \in {j \in 1..Len(tags) : Strip(tags[j]) # <<>>}}

\* The entries (matches, title, note) of scored for the notes from i on, the
\* note given as its position in the dict.
RECURSIVE Scored(_, _, _)
Scored(notes, i, query_tags) ==
    IF i > Len(notes) THEN <<>>
    ELSE LET matches == Cardinality(NormalizedTags(notes[i].note.tags)
                                        \cap query_tags)
             rest == Scored(notes, i + 1, query_tags)
         IN  IF matches > 0
             THEN <<[matches |-> matches, title |-> notes[i].note.title,
                     note |-> i]>> \o rest
             ELSE rest

\* The order of the sort keys (-matches, title).
ScoredLess(a, b) ==
    \/ a.matches > b.matches
    \/ a.matches = b.matches /\ StrLess(a.title, b.title)

\* scored.sort(key=...): stable, ascending in the key.
RECURSIVE ScoredInsert(_, _)
ScoredInsert(sorted, x) ==
    IF sorted = <<>> THEN <<x>>
    ELSE IF ScoredLess(x, sorted[Len(sorted)])
         THEN Append(ScoredInsert(SubSeq(sorted, 1, Len(sorted) - 1), x),
                     sorted[Len(sorted)])
         ELSE Append(sorted, x)

RECURSIVE ScoredSort(_)
ScoredSort(s) ==
    IF s = <<>> THEN <<>>
    ELSE ScoredInsert(ScoredSort(SubSeq(s, 1, Len(s) - 1)), s[Len(s)])

\* Variant: the matching notes are returned in the order of the dict.
Notebook_sort_by_tags_unsorted(notes, tag_list) ==
    LET query_tags == NormalizedTags(tag_list)
        scored == Scored(notes, 1, query_tags)
    IN  [i \in 1..Len(scored) |-> scored[i].note]

\* Notebook.sort_by_tags: the notes that share a tag with the query, by
\* falling number of shared tags and rising title.
Notebook_sort_by_tags(notes, tag_list) ==
    LET query_tags == NormalizedTags(tag_list)
        scored == ScoredSort(Scored(notes, 1, query_tags))
    IN  IF tag_list = <<>> \/ query_tags = {} THEN <<>>
        ELSE [i \in 1..Len(scored) |-> scored[i].note]

MaxTagNotes == 3

NoteBody == <<"B", "o", "d", "y">>

\* The titles of the notes, in the orders in which add_note stored them.
TagTitleOrders ==
    { <<<<"A">>, <<"B">>, <<"C">>>>, <<<<"C">>, <<"B">>, <<"A">>>>,
      <<<<"b">>, <<"A">>, <<"C">>>>, <<<<"C">>, <<"A">>, <<"b">>>> }

TagRaws == { <<"x">>, <<" ", "X", " ">>, <<"y">>, <<" ">> }

TagLists ==
    { <<<<"x">>, <<"y">>>>, <<<<" ", "X", " ">>>>, <<<<"y">>, <<"Y">>>>,
      <<<<"z">>, <<" ">>>>, <<<<" ">>>>, <<>> }

\* Three notes without tags, stored by add_note in one of the orders.
InitTags ==
    /\ book = <<>>
    /\ \E titles \in TagTitleOrders :
          notebook = [i \in 1..Len(titles) |->
                         [key |-> titles[i],
                          note |-> Note(titles[i], NoteBody, Clock0).note]]
    /\ now = Clock0
    /\ disk = NoFiles
    /\ run = NotRun
    /\ last = NoCall

\* add_tag and remove_tag on the note at position i of the notebook.
AddTag(i, tag) ==
    /\ i \in 1..Len(notebook)
    /\ notebook' = [notebook EXCEPT ![i].note = Note_add_tag(@, tag)]
    /\ last' = Call("add_tag", <<i, tag>>, NoErr, NoRet, notebook)
    /\ UNCHANGED <<book, now, disk, run>>

RemoveTag(i, tag) ==
    /\ i \in 1..Len(notebook)
    /\ notebook' = [notebook EXCEPT ![i].note = Note_remove_tag(@, tag)]
    /\ last' = Call("remove_tag", <<i, tag>>, NoErr, NoRet, notebook)
    /\ UNCHANGED <<book, now, disk, run>>

SortByTags(tag_list) ==
    /\ last' = Call("sort_by_tags", <<tag_list>>, NoErr,
                    Notebook_sort_by_tags(notebook, tag_list), notebook)
    /\ UNCHANGED <<book, notebook, now, disk, run>>

NextTags ==
    \/ \E i \in 1..MaxTagNotes, tag \in TagRaws : AddTag(i, tag)
    \/ \E i \in 1..MaxTagNotes, tag \in TagRaws : RemoveTag(i, tag)
    \/ \E tag_list \in TagLists : SortByTags(tag_list)

SpecTags == InitTags /\ [][NextTags]_vars

\* C21: after any sequence of add_tag and remove_tag calls the tag list of a
\* note has no duplicates and every tag is a non-empty, trimmed, lower-case
\* string; add_tag of a tag that is empty after normalization or already
\* present leaves the list unchanged, and so does remove_tag of a tag that is
\* not present.
C21_TagsNormalizedUnique ==
    LET normalized == lower(Strip(last.args[2]))
        before == last.pre[last.args[1]].note.tags
    IN  /\ \A n \in 1..Len(notebook) :
              LET tags == notebook[n].note.tags
              IN  /\ \A i, j \in 1..Len(tags) : tags[i] = tags[j] => i = j
                  /\ \A i \in 1..Len(tags) :
                        /\ tags[i] # <<>>
                        /\ Strip(tags[i]) = tags[i]
                        /\ lower(tags[i]) = tags[i]
        /\ (last.op = "add_tag" /\ (normalized = <<>> \/ InList(before, normalized)))
              => notebook = last.pre
        /\ (last.op = "remove_tag" /\ ~InList(before, normalized))
              => notebook = last.pre

\* add_tag of a tag in capitals and blanks whose normal form the note holds,
\* beside another tag.
C21_Witness ==
    /\ last.op = "add_tag"
    /\ last.args[2] # lower(Strip(last.args[2]))
    /\ InList(last.pre[last.args[1]].note.tags, lower(Strip(last.args[2])))
    /\ Len(notebook[last.args[1]].note.tags) = 2

\* The number of tags the note at position i shares with the trimmed,
\* lower-case entries of the query.
SharedTags(notes, i, tag_list) ==
    Cardinality({t \in {lower(Strip(tag_list[k])) : k \in 1..Len(tag_list)} :
                    InList(notes[i].note.tags, t)})

\* C22: sort_by_tags(tag_list) returns exactly the notes that share at least
\* one tag with the normalized query, each once, by falling number of shared
\* tags and, among equal numbers, by rising title compared case-sensitively.
C22_SortByTags ==
    last.op = "sort_by_tags" =>
        LET shared(i) == SharedTags(notebook, i, last.args[1])
        IN  /\ notebook = last.pre
            /\ \A i \in 1..Len(notebook) :
                  Cardinality({j \in 1..Len(last.ret) : last.ret[j] = i})
                      = IF shared(i) >= 1 THEN 1 ELSE 0
            /\ \A j, k \in 1..Len(last.ret) :
                  j < k =>
                      \/ shared(last.ret[j]) > shared(last.ret[k])
                      \/ /\ shared(last.ret[j]) = shared(last.ret[k])
                         /\ StrLess(notebook[last.ret[j]].note.title,
                                    notebook[last.ret[k]].note.title)

\* Notes A with x and y, B with x and C without tags, stored in the order C,
\* B, A: sort_by_tags(["x", "y"]) returns A, then B.
C22_Witness ==
    /\ last.op = "sort_by_tags" /\ last.args[1] = <<<<"x">>, <<"y">>>>
    /\ notebook[1].key = <<"C">> /\ notebook[1].note.tags = <<>>
    /\ notebook[2].key = <<"B">> /\ notebook[2].note.tags = <<<<"x">>>>
    /\ notebook[3].key = <<"A">> /\ NormalizedTags(notebook[3].note.tags) = {<<"x">>, <<"y">>}
    /\ last.ret = <<3, 2>>

\* ------------------------------------------------------------------------
\* save_data and load_data (memory.py 18-100)
\* ------------------------------------------------------------------------
\* The attributes of the classes AddressBook (with UserDict's data) and
\* Notebook of entities.py.
AddressBookAttributes ==
    {"data", "add_record", "find", "delete", "search",
     "get_upcoming_birthdays", "_has_name", "_get_birthday_date",
     "_move_weekend_to_monday", "_normalize_value", "_collect_search_fields"}

NotebookAttributes ==
    {"_notes", "add_note", "find_note", "delete_note", "edit_note",
     "search_notes", "show_all", "find_by_tag", "get_all_tags", "sort_by_tags"}

\* The JSON object {}.
EmptyJson == [members |-> <<>>]

\* obj.to_dict() if hasattr(obj, "to_dict") else {} : the value that
\* json.dump writes.  The result of a to_dict is the object it encodes.
Dumped(attributes, obj) ==
    IF "to_dict" \in attributes THEN [to_dict |-> obj] ELSE EmptyJson

\* save_data: both files are written.
save_data(address_book, notes) ==
    [addressbook |-> <<Dumped(AddressBookAttributes, address_book)>>,
     notebook |-> <<Dumped(NotebookAttributes, notes)>>]

\* One half of load_data: a missing file raises FileNotFoundError and
\* cls.from_dict on a class without from_dict raises AttributeError; each
\* except clause puts an empty collection in its place.
Loaded(attributes, file) ==
    LET err == IF file = Missing THEN "FileNotFoundError"
               ELSE IF "from_dict" \notin attributes THEN "AttributeError"
               ELSE NoErr
    IN  IF err # NoErr THEN <<>> ELSE file[1].to_dict

\* load_data: the AddressBook and the Notebook read from the files.
load_data(files) ==
    [address_book |-> Loaded(AddressBookAttributes, files.addressbook),
     notebook |-> Loaded(NotebookAttributes, files.notebook)]

MemoryNames == {John, Ann}

MemoryTitles == {NoteTitle, <<"t", "i", "t", "l", "e">>}

SaveData ==
    /\ disk' = save_data(book, notebook)
    /\ run' = [run EXCEPT !.saves = 1, !.saved = <<book, notebook>>]
    /\ last' = Call("save_data", <<>>, NoErr, NoRet, book)
    /\ UNCHANGED <<book, notebook, now>>

LoadData ==
    /\ LET r == load_data(disk)
       IN  /\ book' = r.address_book
           /\ notebook' = r.notebook
    /\ last' = Call("load_data", <<>>, NoErr, NoRet, book)
    /\ UNCHANGED <<now, disk, run>>

NextMemory ==
    \/ \E n \in MemoryNames : AddRecord(Record_add_phone(Record(n), Ph050).rec)
    \/ \E title \in MemoryTitles : AddNote(title, NoteBody)
    \/ AddTag(1, <<"x">>)
    \/ SaveData
    \/ LoadData

SpecMemory == InitBook /\ [][NextMemory]_vars

\* The contacts of a book: name, phones, emails, addresses and birthday.
ContactsOf(data) == {data[i].rec : i \in 1..Len(data)}

\* The notes of a notebook: title, content and set of tags.
NotesOf(notes) ==
    {[title |-> notes[i].note.title, content |-> notes[i].note.content,
      tags |-> {notes[i].note.tags[k] : k \in 1..Len(notes[i].note.tags)}] :
        i \in 1..Len(notes)}

\* C23 as stated: the collections that load_data returns after a save_data
\* are equivalent to the saved ones: the same contacts with the same phones,
\* emails, addresses and birthdays, and the same notes with the same titles,
\* contents and tag sets.
C23_SaveLoadRoundTrip ==
    (last.op = "load_data" /\ run.saved # <<>>) =>
        /\ ContactsOf(book) = ContactsOf(run.saved[1])
        /\ NotesOf(notebook) = NotesOf(run.saved[2])

\* ------------------------------------------------------------------------
\* The command loop of main (main.py 48-93, utils.py 15-17)
\* ------------------------------------------------------------------------
\* str.split(): the words between runs of whitespace.
RECURSIVE Split(_)
Split(s) ==
    LET t == LStrip(s)
        blanks == {i \in 1..Len(t) : t[i] \in Whitespace}
        n == IF blanks = {} THEN Len(t) + 1
             ELSE CHOOSE i \in blanks : \A j \in blanks : i <= j
    IN  IF t = <<>> THEN <<>>
        ELSE <<SubSeq(t, 1, n - 1)>> \o Split(SubSeq(t, n, Len(t)))

\* parse_input: the first word in lower case, and the other words.
parse_input(input_string) ==
    LET words == Split(input_string)
    IN  [command |-> lower(words[1]), args |-> Tail(words)]

W_exit == <<"e", "x", "i", "t">>
W_close == <<"c", "l", "o", "s", "e">>
W_quit == <<"q", "u", "i", "t">>
W_hello == <<"h", "e", "l", "l", "o">>
W_help == <<"h", "e", "l", "p">>
W_add == <<"a", "d", "d">>
W_delete == <<"d", "e", "l", "e", "t", "e">>
W_save == <<"s", "a", "v", "e">>

\* The keys of the handlers dict that the command lines of the model use,
\* and the handler each one names.
CONTACT_HANDLERS == {W_hello, W_add, W_delete}

Handle(command, args, data) ==
    IF command = W_add THEN add_contact(args, data)
    ELSE IF command = W_delete THEN delete_contact(args, data)
    ELSE [data |-> data, err |-> NoErr]

\* The lines typed at the prompt.
MainLines ==
    { W_exit, W_close, W_quit,
      <<" ", "E", "X", "I", "T", " ">>,
      Join(<<W_exit, W_hello>>),
      W_hello, W_help, W_save, W_quit \o <<"s">>,
      <<>>, <<" ", " ">>,
      Join(<<W_add, Ann, Ph050>>), Join(<<W_add, Ann, <<"1", "2", "3">>>>),
      Join(<<W_add, John, Ph050>>),
      Join(<<W_delete, Ann>>), Join(<<W_delete, John>>), W_delete }

\* main has loaded the collections, no file being there, and is at the
\* prompt of its loop.
InitMain ==
    /\ book = load_data(NoFiles).address_book
    /\ notebook = load_data(NoFiles).notebook
    /\ now = Clock0
    /\ disk = NoFiles
    /\ run = [pc |-> "loop", saves |-> 0, saved |-> <<>>]
    /\ last = NoCall

\* One pass of the loop for a line that input() returned.  last.ret is the
\* command of the line, empty for a blank line.
ReadLine(line) ==
    /\ run.pc = "loop"
    /\ LET user_input == Strip(line)
           parsed == parse_input(user_input)
       IN  IF user_input = <<>>
           THEN /\ last' = Call("input", <<line>>, NoErr, <<>>, book)
                /\ UNCHANGED <<book, disk, run>>
           ELSE IF parsed.command \in {W_exit, W_close, W_quit}
           THEN /\ disk' = save_data(book, notebook)
                /\ run' = [pc |-> "ended", saves |-> run.saves + 1,
                           saved |-> <<book, notebook>>]
                /\ last' = Call("input", <<line>>, NoErr, parsed.command, book)
                /\ UNCHANGED book
           ELSE IF parsed.command \in {W_hello, W_help}
           THEN /\ last' = Call("input", <<line>>, NoErr, parsed.command, book)
                /\ UNCHANGED <<book, disk, run>>
           ELSE IF parsed.command \in CONTACT_HANDLERS
           THEN LET r == Handle(parsed.command, parsed.args, book)
                IN  /\ CmdBounded(r.data)
                    /\ book' = r.data
                    /\ last' = Call("input", <<line>>, r.err, parsed.command, book)
                    /\ UNCHANGED <<disk, run>>
           ELSE /\ last' = Call("input", <<line>>, NoErr, parsed.command, book)
                /\ UNCHANGED <<book, disk, run>>
    /\ UNCHANGED <<notebook, now>>

\* input() meets the end of the input: EOFError leaves main.
ReadEof ==
    /\ run.pc = "loop"
    /\ run' = [run EXCEPT !.pc = "raised"]
    /\ last' = Call("input", <<>>, "EOFError", <<>>, book)
    /\ UNCHANGED <<book, notebook, now, disk>>

NextMain ==
    \/ \E line \in MainLines : ReadLine(line)
    \/ ReadEof

SpecMain == InitMain /\ [][NextMain]_vars

\* C24 as stated: a run of the loop ends only through an exit, close or
\* quit command, with save_data called once, at the end, on the current
\* contacts and notebook; while the loop runs nothing is saved.
C24_EndsOnlyByExitWithOneSave ==
    /\ run.pc = "loop" => run.saves = 0 /\ disk = NoFiles
    /\ run.pc # "loop" =>
          /\ last.ret \in {W_exit, W_close, W_quit}
          /\ run.saves = 1
          /\ run.saved = <<book, notebook>>

\* ------------------------------------------------------------------------
\* Lookups after add_phone, and the removal of a repeated phone
\* ------------------------------------------------------------------------
\* C25 as stated: after add_phone has accepted a raw value, find_phone with
\* the same raw value returns a phone of the record, and remove_phone and
\* edit_phone with it as the old value return True.
C25_FindWhatWasAdded ==
    (last.op = "add_phone" /\ last.err = NoErr) =>
        /\ Record_find_phone(book[1].rec, last.args[1]) # 0
        /\ Record_remove_phone(book[1].rec, last.args[1]).ret = TRUE
        /\ Record_edit_phone(book[1].rec, last.args[1], Ph067).ret = TRUE

\* C27: when the phone list holds the value more than once, a successful
\* remove_phone removes the first entry with that value and no other: the
\* list is one shorter, the other entries keep value and order, and
\* find_phone of the value still finds a copy.
C27_RemoveFirstDuplicate ==
    (/\ last.op = "remove_phone" /\ last.ret = TRUE
     /\ Cardinality(Holding(last.pre[1].rec.phones, last.args[1])) >= 2)
        => LET before == last.pre[1].rec.phones
               hits == Holding(before, last.args[1])
               first == CHOOSE i \in hits : \A j \in hits : i <= j
           IN  /\ Len(book[1].rec.phones) = Len(before) - 1
               /\ book[1].rec.phones = RemoveAt(before, first)
               /\ Record_find_phone(book[1].rec, last.args[1]) # 0

\* The value was held at the second and third of three places; the first
\* place holds another number.
C27_Witness ==
    /\ last.op = "remove_phone" /\ last.ret = TRUE
    /\ Holding(last.pre[1].rec.phones, last.args[1]) = {2, 3}
    /\ Len(book[1].rec.phones) = 2
    /\ book[1].rec.phones[1].value # book[1].rec.phones[2].value

\* C26 as stated: get_upcoming_birthdays returns a list and raises no error
\* for every book of birthdays that Birthday accepted, a birthday on 29
\* February included, and leaves the book as it was.
C26_UpcomingNeverRaises ==
    last.op = "get_upcoming_birthdays" =>
        /\ last.err = NoErr
        /\ book = last.pre

====
